---- MODULE Spec2Model ----
(***************************************************************************)
(* Ant Colony Optimization solvers for the asymmetric TSP: Ant System      *)
(* (SolveAS), Max-Min Ant System (SolveMMAS) and Ant Colony System         *)
(* (SolveACS).                                                             *)
(*                                                                         *)
(* float64 values are modelled as exact fractions <<n, d>> in lowest terms *)
(* with d >= 0.  d = 0 carries the IEEE-754 specials: <<1, 0>> is +Inf,    *)
(* <<-1, 0>> is -Inf and <<0, 0>> is NaN.  Rounding is not modelled, and   *)
(* negative zero is not distinguished from zero.                           *)
(***************************************************************************)
EXTENDS Integers, Sequences, FiniteSets, TLC

(* ------------------------------ float64 -------------------------------- *)

Abs(x) == IF x < 0 THEN -x ELSE x

Sgn(x) == IF x < 0 THEN -1 ELSE IF x > 0 THEN 1 ELSE 0

RECURSIVE GCD(_, _)
GCD(a, b) == IF b = 0 THEN a ELSE GCD(b, a % b)

Norm(n, d) ==
    IF d = 0 THEN <<Sgn(n), 0>>
    ELSE LET g == GCD(Abs(n), Abs(d))
             s == Sgn(d)
         IN  <<(s * n) \div g, (s * d) \div g>>

Zero == <<0, 1>>
One  == <<1, 1>>
Inf  == <<1, 0>>
NaN  == <<0, 0>>

IsNaN(a) == a[1] = 0 /\ a[2] = 0
IsFinite(a) == a[2] # 0

Neg(a) == <<-a[1], a[2]>>

\* a + b; two infinities add to themselves when they agree, to NaN otherwise.
\* The common denominator is the least one, to keep the integers small.
Add(a, b) ==
    IF a[2] = 0 /\ b[2] = 0
    THEN (IF a[1] = b[1] THEN a ELSE NaN)
    ELSE IF a[2] = 0 THEN a
    ELSE IF b[2] = 0 THEN b
    ELSE LET g == GCD(a[2], b[2])
         IN  Norm(a[1] * (b[2] \div g) + b[1] * (a[2] \div g), (a[2] \div g) * b[2])

Sub(a, b) == Add(a, Neg(b))

\* a * b; Inf * 0 = NaN.  Common factors are cancelled before multiplying.
Mul(a, b) ==
    LET g1 == GCD(Abs(a[1]), b[2])
        g2 == GCD(Abs(b[1]), a[2])
        h1 == IF g1 = 0 THEN 1 ELSE g1
        h2 == IF g2 = 0 THEN 1 ELSE g2
    IN  Norm((a[1] \div h1) * (b[1] \div h2), (a[2] \div h2) * (b[2] \div h1))

\* 1 / b; 1 / 0 = +Inf, 1 / Inf = 0.
Inv(b) == IF b[1] < 0 THEN <<-b[2], -b[1]>> ELSE <<b[2], b[1]>>

\* a / b; x / 0 = +-Inf, 0 / 0 = NaN, Inf / Inf = NaN, x / Inf = 0.
Div(a, b) == Mul(a, Inv(b))

\* n1 / d1 < n2 / d2 for n1, n2 >= 0 and d1, d2 > 0, by integer parts and
\* then remainders, so that no product is formed.
RECURSIVE LessPos(_, _, _, _)
LessPos(n1, d1, n2, d2) ==
    LET q1 == n1 \div d1
        q2 == n2 \div d2
        r1 == n1 % d1
        r2 == n2 % d2
    IN  IF q1 # q2 THEN q1 < q2
        ELSE IF r2 = 0 THEN FALSE
        ELSE IF r1 = 0 THEN TRUE
        ELSE LessPos(d2, r2, d1, r1)

\* a < b; every comparison with NaN is false.
Less(a, b) ==
    /\ ~IsNaN(a)
    /\ ~IsNaN(b)
    /\ IF a[2] = 0 \/ b[2] = 0
       THEN IF a[2] = 0 /\ b[2] = 0 THEN a[1] < b[1]
            ELSE IF a[2] = 0 THEN a[1] < 0
            ELSE b[1] > 0
       ELSE IF a[1] < 0 /\ b[1] >= 0 THEN TRUE
       ELSE IF a[1] >= 0 /\ b[1] < 0 THEN FALSE
       ELSE IF a[1] < 0 THEN LessPos(-b[1], b[2], -a[1], a[2])
       ELSE LessPos(a[1], a[2], b[1], b[2])

\* a == b of Go: false when either side is NaN.
Eq(a, b) == ~IsNaN(a) /\ ~IsNaN(b) /\ a = b

Leq(a, b) == Less(a, b) \/ Eq(a, b)

\* math.Pow(x, k) for a small natural exponent k.
RECURSIVE Pow(_, _)
Pow(x, k) == IF k = 0 THEN One ELSE Mul(x, Pow(x, k - 1))

(* ------------------------------ bounds --------------------------------- *)

\* Most tours one solve call builds: m * iterations <= MaxTours.
MaxTours == 3

\* rand.Float64() draws k / RandDen for k in 0 .. RandDen - 1.
RandDen == 4

(* ------------------------------ inputs --------------------------------- *)

\* A [][]float64 from rows of integers, indexed from 0 as in the source.
Matrix(rows) ==
    [i \in 0 .. Len(rows) - 1 |->
        [j \in 0 .. Len(rows[i + 1]) - 1 |-> <<rows[i + 1][j + 1], 1>>]]

\* Strictly positive costs, diagonal included.
GraphPositive == Matrix(<< <<9, 2, 3>>, <<3, 9, 2>>, <<2, 3, 9>> >>)

\* Strictly positive off-diagonal costs, zero diagonal.
GraphZeroDiagonal == Matrix(<< <<0, 2, 3>>, <<3, 0, 2>>, <<2, 3, 0>> >>)

\* Non-negative costs with zero-cost edges 0->1, 0->2, 1->0 and 2->1.
GraphZeroEdges == Matrix(<< <<9, 0, 0>>, <<0, 9, 1>>, <<1, 0, 9>> >>)

Half == <<1, 2>>

\* The values rand.Float64() can return: [0, 1), zero included.
Rand == {<<k, RandDen>> : k \in 0 .. RandDen - 1}

Float64Draws == {Norm(r[1], r[2]) : r \in Rand}

\* The (m, iterations) a solve call is made with.
Calls ==
    {c \in (1 .. MaxTours) \X (0 .. MaxTours) : c[1] * c[2] <= MaxTours}

BaseArgs ==
    [variant |-> "AS", graph |-> GraphPositive, alfa |-> 1, beta |-> 2,
     rho |-> Half, q |-> One, m |-> 1, iterations |-> 1,
     tauMax |-> Zero, tauMin |-> Zero, tau0 |-> Zero, phi |-> Zero, q0 |-> Zero]

ArgsAS ==
    {[BaseArgs EXCEPT !.graph = g, !.m = c[1], !.iterations = c[2]] :
        g \in {GraphPositive, GraphZeroEdges}, c \in Calls}

ArgsMMAS ==
    {[BaseArgs EXCEPT !.variant = "MMAS", !.q = <<6, 1>>, !.tauMax = One,
                      !.tauMin = <<3, 4>>, !.m = c[1], !.iterations = c[2]] :
        c \in Calls}
    \cup
    {[BaseArgs EXCEPT !.variant = "MMAS", !.q = <<6, 1>>, !.tauMax = Half,
                      !.tauMin = One]}

ArgsACS ==
    {[BaseArgs EXCEPT !.variant = "ACS", !.graph = GraphZeroDiagonal,
                      !.tau0 = One, !.phi = Half, !.q0 = qq,
                      !.m = c[1], !.iterations = c[2]] :
        qq \in {Zero, Half, One}, c \in Calls}
    \cup
    {[BaseArgs EXCEPT !.variant = "ACS", !.graph = GraphZeroDiagonal,
                      !.tau0 = One, !.phi = Half, !.q0 = <<2, 1>>]}

Args == ArgsAS \cup ArgsMMAS \cup ArgsACS

(* ------------------------------- state --------------------------------- *)

VARIABLES
    args,        \* the arguments of the solve call; the colony's parameters
    size,        \* colony.size
    weights,     \* colony.weights
    pheromones,  \* colony.pheromones
    bestPath,    \* colony.bestPath
    bestCost,    \* colony.bestCost
    ants,        \* colony.ants
    gen,         \* the loop counter of the solve call
    cur,         \* position of `range c.ants` in constructAntSolutions
    pc,          \* position of the solve call
    ret,         \* what the solve call returned
    choice,      \* a direct call of simulateChoice: its arguments and result
    bestOwner    \* the ant whose path slice shares its array with bestPath; 0: none

vars == <<args, size, weights, pheromones, bestPath, bestCost, ants, gen, cur, pc, ret,
          choice, bestOwner>>

Nodes == 0 .. size - 1

NoReturn == [returned |-> FALSE]

NoChoice == [called |-> FALSE]

Init ==
    /\ args \in Args
    /\ size = 0
    /\ weights = <<>>
    /\ pheromones = <<>>
    /\ bestPath = <<>>
    /\ bestCost = Zero
    /\ ants = <<>>
    /\ gen = 0
    /\ cur = 0
    /\ pc = "configure"
    /\ ret = NoReturn
    /\ choice = NoChoice
    /\ bestOwner = 0

(* ---------------------------- configuration ---------------------------- *)

\* The value both matrices are seeded with: 1.0, tauMax or tau0.
Seed(a) ==
    CASE a.variant = "AS" -> One
      [] a.variant = "MMAS" -> a.tauMax
      [] a.variant = "ACS" -> a.tau0

generateMatrices(a, n) ==
    [w |-> [i \in 0 .. n - 1 |-> [j \in 0 .. n - 1 |-> Div(Seed(a), a.graph[i][j])]],
     p |-> [i \in 0 .. n - 1 |-> [j \in 0 .. n - 1 |-> Seed(a)]]]

\* A fresh ant: cost 0, empty path, nothing visited.
FreshAnt(n) == [cost |-> Zero, path |-> <<>>, visited |-> [j \in 0 .. n - 1 |-> FALSE]]

makeAnts(mm, n) == [k \in 1 .. mm |-> FreshAnt(n)]

resetAnts(as, n) == [k \in 1 .. Len(as) |-> FreshAnt(n)]

configurateSolver ==
    /\ pc = "configure"
    /\ LET n == Cardinality(DOMAIN args.graph)
           mats == generateMatrices(args, n)
       IN  /\ size' = n
           /\ weights' = mats.w
           /\ pheromones' = mats.p
           /\ ants' = makeAnts(args.m, n)
           /\ bestPath' = [k \in 1 .. n |-> 0]
    /\ bestCost' = Zero
    /\ pc' = "loop"
    /\ UNCHANGED <<args, gen, cur, ret, choice, bestOwner>>

(* ----------------------------- construction ---------------------------- *)

\* The loop condition taken as gen <= iterations.
loopConditionInclusive(g, iterations) == g <= iterations

\* The condition of `for gen := 0; gen < iterations; gen++`.
loopCondition(g, iterations) == g < iterations

\* The array of bestPath after resetAnts truncated the paths in place
\* (a.path = a.path[:0]): still the array of the same ant.
ownerInPlace(owner) == owner

\* The array of bestPath after resetAnts: a.path = make([]int, 0, a.size)
\* gives every ant a new array, so bestPath shares its array with no ant.
ownerAfterReset(owner) == 0

\* The loop body begins: constructAntSolutions starts with resetAnts.
beginGeneration ==
    /\ pc = "loop"
    /\ loopCondition(gen, args.iterations)
    /\ ants' = resetAnts(ants, size)
    /\ bestOwner' = ownerAfterReset(bestOwner)
    /\ cur' = 1
    /\ pc' = "construct"
    /\ UNCHANGED <<args, size, weights, pheromones, bestPath, bestCost, gen, ret, choice>>

visitNode(a, node) ==
    [a EXCEPT !.path = Append(@, node), !.visited[node] = TRUE]

\* bestPath as it reads after ant k appended node to its path a.path: append
\* stays within the capacity size of the array it writes to, and a slice
\* sharing this array sees the element written.
sharedAppend(path, owner, k, a, node) ==
    IF owner = k /\ Len(a.path) < Len(path)
    THEN [path EXCEPT ![Len(a.path) + 1] = node]
    ELSE path

\* The unnormalised selection weights chooseNode computes for ant a.
Probabilities(a) ==
    LET previous == a.path[Len(a.path)]
    IN  [next \in Nodes |->
            IF ~a.visited[next]
            THEN Mul(Pow(pheromones[previous][next], args.alfa),
                     Pow(weights[previous][next], args.beta))
            ELSE Zero]

RECURSIVE SumFrom(_, _)
SumFrom(probabilities, i) ==
    IF i < 0 THEN Zero ELSE Add(SumFrom(probabilities, i - 1), probabilities[i])

\* len(probabilities)
Length(probabilities) == Cardinality(DOMAIN probabilities)

\* The loop of simulateChoice from (node, c), n being len(probabilities).
\* The result n stands for the index out of range at which
\* probabilities[node] panics.
RECURSIVE Walk(_, _, _, _, _)
Walk(probabilities, n, u, node, c) ==
    IF Less(c, u)
    THEN IF node + 1 >= n THEN n
         ELSE Walk(probabilities, n, u, node + 1, Add(c, probabilities[node + 1]))
    ELSE node

\* simulateChoice with r the value drawn by rand.Float64().
simulateChoice(probabilities, sum, r) ==
    Walk(probabilities, Length(probabilities), Mul(sum, r), 0, probabilities[0])

\* colony.chooseNode
chooseNode(a, r) ==
    LET probabilities == Probabilities(a)
    IN  simulateChoice(probabilities, SumFrom(probabilities, size - 1), r)

\* The largest selection weight, as chooseNode of ACS accumulates it.
RECURSIVE PMax(_, _)
PMax(probabilities, i) ==
    IF i < 0 THEN Zero
    ELSE LET before == PMax(probabilities, i - 1)
         IN  IF Less(before, probabilities[i]) THEN probabilities[i] ELSE before

\* The outcomes of `q < c.q0` for q drawn by rand.Float64().
Exploits == {Less(q, args.q0) : q \in Float64Draws}

\* The loop of exploitPheromones from index i; exploit[i] is the outcome of
\* `q < c.q0` in pass i.
RECURSIVE ExploitFrom(_, _, _, _, _, _)
ExploitFrom(probabilities, pMax, sum, exploit, i, newSum) ==
    IF i >= size THEN [probabilities |-> probabilities, sum |-> newSum]
    ELSE LET p == Div(probabilities[i], sum)
         IN  IF exploit[i]
             THEN ExploitFrom([probabilities EXCEPT ![i] = pMax], pMax, sum, exploit,
                              i + 1, Sub(pMax, p))
             ELSE ExploitFrom([probabilities EXCEPT ![i] = p], pMax, sum, exploit,
                              i + 1, newSum)

exploitPheromones(probabilities, pMax, sum, exploit) ==
    ExploitFrom(probabilities, pMax, sum, exploit, 0, Zero)

\* antColonySystem.chooseNode
chooseNodeACS(a, exploit, r) ==
    LET probabilities == Probabilities(a)
        e == exploitPheromones(probabilities, PMax(probabilities, size - 1),
                               SumFrom(probabilities, size - 1), exploit)
    IN  simulateChoice(e.probabilities, e.sum, r)

\* antSimulation: a.visitNode(rand.Intn(a.size))
antStart ==
    /\ pc = "construct"
    /\ cur <= Len(ants)
    /\ Len(ants[cur].path) = 0
    /\ \E node \in Nodes :
          /\ ants' = [ants EXCEPT ![cur] = visitNode(@, node)]
          /\ bestPath' = sharedAppend(bestPath, bestOwner, cur, ants[cur], node)
    /\ UNCHANGED <<args, size, weights, pheromones, bestCost, gen, cur, pc, ret, choice, bestOwner>>

\* One pass of the loop of antSimulation, given the node chooseNode returned.
Step(node) ==
    IF node >= size
    THEN /\ pc' = "panic"
         /\ UNCHANGED <<ants, bestPath>>
    ELSE /\ LET a == visitNode(ants[cur], node)
                n == Len(a.path)
            IN  ants' = [ants EXCEPT ![cur] =
                    [a EXCEPT !.cost = Add(@, args.graph[a.path[n - 1]][a.path[n]])]]
         /\ bestPath' = sharedAppend(bestPath, bestOwner, cur, ants[cur], node)
         /\ UNCHANGED pc

antStep ==
    /\ pc = "construct"
    /\ cur <= Len(ants)
    /\ Len(ants[cur].path) >= 1
    /\ Len(ants[cur].path) < size
    /\ \E r \in Float64Draws :
          IF args.variant = "ACS"
          THEN \E exploit \in [Nodes -> Exploits] :
                  Step(chooseNodeACS(ants[cur], exploit, r))
          ELSE Step(chooseNode(ants[cur], r))
    /\ UNCHANGED <<args, size, weights, pheromones, bestCost, gen, cur, ret, choice, bestOwner>>

\* p * (1 - phi) + phi * tau0
LocalValue(p) ==
    Add(Mul(p, Sub(One, args.phi)), Mul(args.phi, args.tau0))

RECURSIVE LocalFrom(_, _, _)
LocalFrom(ph, path, i) ==
    IF i > size - 1 THEN ph
    ELSE LocalFrom([ph EXCEPT ![path[i]][path[i + 1]] = LocalValue(@)], path, i + 1)

\* antColonySystem.localUpdatePheromone
localUpdatePheromone(ph, path) ==
    LocalFrom([ph EXCEPT ![path[size]][path[1]] = LocalValue(@)], path, 1)

\* Evaporation run once per ant, inside the construction loop.
afterAntEvaporate(ph, path) ==
    [i \in Nodes |-> [j \in Nodes |-> Mul(ph[i][j], Sub(One, args.rho))]]

\* What constructAntSolutions does to the matrix once an ant has its tour.
afterAnt(ph, path) ==
    IF args.variant = "ACS" THEN localUpdatePheromone(ph, path) ELSE ph

\* The end of antSimulation: the closing edge; then the next ant.
antFinish ==
    /\ pc = "construct"
    /\ cur <= Len(ants)
    /\ Len(ants[cur].path) = size
    /\ LET a == ants[cur]
       IN  /\ ants' = [ants EXCEPT ![cur].cost =
                          Add(@, args.graph[a.path[Len(a.path)]][a.path[1]])]
           /\ pheromones' = afterAnt(pheromones, a.path)
    /\ cur' = cur + 1
    /\ UNCHANGED <<args, size, weights, bestPath, bestCost, gen, pc, ret, choice, bestOwner>>

(* ------------------------------ best path ------------------------------ *)

RECURSIVE BestFrom(_, _, _)
BestFrom(as, k, best) ==
    IF k > Len(as) THEN best
    ELSE IF Less(as[k].cost, best.cost)
         THEN BestFrom(as, k + 1,
                       [path |-> as[k].path, cost |-> as[k].cost, owner |-> k])
         ELSE IF Eq(best.cost, Zero)
              THEN BestFrom(as, k + 1,
                            [path |-> as[k].path, cost |-> as[k].cost, owner |-> k])
              ELSE BestFrom(as, k + 1, best)

updateBestPath ==
    /\ pc = "construct"
    /\ cur > Len(ants)
    /\ LET best == BestFrom(ants, 1, [path |-> bestPath, cost |-> bestCost,
                                      owner |-> bestOwner])
       IN  /\ bestPath' = best.path
           /\ bestCost' = best.cost
           /\ bestOwner' = best.owner
    /\ pc' = "update"
    /\ UNCHANGED <<args, size, weights, pheromones, ants, gen, cur, ret, choice>>

(* --------------------------- pheromone update -------------------------- *)

Evaporate(ph) ==
    [i \in Nodes |-> [j \in Nodes |-> Mul(ph[i][j], Sub(One, args.rho))]]

RECURSIVE DepositFrom(_, _, _, _)
DepositFrom(ph, path, weight, i) ==
    IF i > size - 1 THEN ph
    ELSE DepositFrom([ph EXCEPT ![path[i]][path[i + 1]] = Add(@, weight)],
                     path, weight, i + 1)

\* Deposit that leaves the closing edge out.
DepositOpen(ph, path, weight) == DepositFrom(ph, path, weight, 1)

\* weight onto the closing edge, then onto every edge of path in order.
Deposit(ph, path, weight) ==
    DepositFrom([ph EXCEPT ![path[size]][path[1]] = Add(@, weight)], path, weight, 1)

RECURSIVE DepositAnts(_, _, _)
DepositAnts(ph, as, k) ==
    IF k > Len(as) THEN ph
    ELSE DepositAnts(Deposit(ph, as[k].path, Div(args.q, as[k].cost)), as, k + 1)

\* colony.updatePheromones
updatePheromonesAS(ph) == DepositAnts(Evaporate(ph), ants, 1)

\* antColonySystem.updatePheromones
updatePheromonesACS(ph) == Deposit(Evaporate(ph), bestPath, Div(args.q, bestCost))

\* scalePheromones without its lower limit.
scalePheromonesNoFloor(ph) ==
    [i \in Nodes |-> [j \in Nodes |->
        IF Less(args.tauMax, ph[i][j]) THEN args.tauMax ELSE ph[i][j]]]

\* mmasColony.scalePheromones
scalePheromones(ph) ==
    [i \in Nodes |-> [j \in Nodes |->
        IF Less(args.tauMax, ph[i][j]) THEN args.tauMax
        ELSE IF Less(ph[i][j], args.tauMin) THEN args.tauMin
        ELSE ph[i][j]]]

\* mmasColony.updatePheromones
updatePheromonesMMAS(ph) ==
    scalePheromones(Deposit(Evaporate(ph), bestPath, Div(args.q, bestCost)))

updatePheromones ==
    /\ pc = "update"
    /\ pheromones' =
          CASE args.variant = "AS" -> updatePheromonesAS(pheromones)
            [] args.variant = "MMAS" -> updatePheromonesMMAS(pheromones)
            [] args.variant = "ACS" -> updatePheromonesACS(pheromones)
    /\ gen' = gen + 1
    /\ pc' = "loop"
    /\ UNCHANGED <<args, size, weights, bestPath, bestCost, ants, cur, ret, choice, bestOwner>>

\* return c.bestCost, c.bestPath
return ==
    /\ pc = "loop"
    /\ ~loopCondition(gen, args.iterations)
    /\ ret' = [returned |-> TRUE, cost |-> bestCost, path |-> bestPath]
    /\ pc' = "done"
    /\ UNCHANGED <<args, size, weights, pheromones, bestPath, bestCost, ants, gen, cur, choice, bestOwner>>

(* ------------------- simulateChoice called directly ------------------- *)

\* Length of the weight vectors simulateChoice is called with directly.
ChoiceLen == 4

\* Largest weight in those vectors.
MaxWeight == 2

InitChoice ==
    /\ args = BaseArgs
    /\ size = 0
    /\ weights = <<>>
    /\ pheromones = <<>>
    /\ bestPath = <<>>
    /\ bestCost = Zero
    /\ ants = <<>>
    /\ gen = 0
    /\ cur = 0
    /\ pc = "choice"
    /\ ret = NoReturn
    /\ bestOwner = 0
    /\ \E w \in [0 .. ChoiceLen - 1 -> 0 .. MaxWeight], r \in Float64Draws :
          LET probabilities == [k \in 0 .. ChoiceLen - 1 |-> <<w[k], 1>>]
          IN  choice = [called |-> FALSE, probabilities |-> probabilities,
                        sum |-> SumFrom(probabilities, ChoiceLen - 1), r |-> r]

callSimulateChoice ==
    /\ pc = "choice"
    /\ ~choice.called
    /\ choice' = [probabilities |-> choice.probabilities, sum |-> choice.sum,
                  r |-> choice.r, called |-> TRUE,
                  node |-> simulateChoice(choice.probabilities, choice.sum, choice.r)]
    /\ UNCHANGED <<args, size, weights, pheromones, bestPath, bestCost, ants, gen, cur,
                   pc, ret, bestOwner>>

SpecChoice == InitChoice /\ [][callSimulateChoice]_vars

(* ------------------------------ solve call ----------------------------- *)

Next ==
    \/ configurateSolver
    \/ beginGeneration
    \/ antStart
    \/ antStep
    \/ antFinish
    \/ updateBestPath
    \/ updatePheromones
    \/ return

Spec == Init /\ [][Next]_vars

(* ============================== properties ============================= *)

\* path visits every node of the graph exactly once.
IsTour(path) ==
    /\ Len(path) = size
    /\ {path[k] : k \in 1 .. Len(path)} = Nodes

NoRepeat(path) ==
    \A k \in 1 .. Len(path), l \in 1 .. Len(path) : path[k] = path[l] => k = l

Configured == pc \notin {"configure", "choice"}

PositiveOffDiagonal(g) ==
    \A i \in DOMAIN g, j \in DOMAIN g : i # j => Less(Zero, g[i][j])

NonNegative(g) ==
    \A i \in DOMAIN g, j \in DOMAIN g : Leq(Zero, g[i][j])

Square(g) == \A i \in DOMAIN g : DOMAIN g[i] = DOMAIN g

\* The configurations the specification calls valid.
ValidArgs ==
    /\ Square(args.graph)
    /\ NonNegative(args.graph)
    /\ Cardinality(DOMAIN args.graph) >= 2
    /\ args.m >= 1
    /\ Less(Zero, args.rho) /\ Less(args.rho, One)
    /\ Leq(Zero, args.q)
    /\ args.alfa >= 0 /\ args.beta >= 0
    /\ args.variant = "MMAS" => Leq(args.tauMin, args.tauMax)
    /\ args.variant = "ACS" => Leq(Zero, args.q0) /\ Leq(args.q0, One)

(* C1.  Every tour an ant builds, and the best tour a solve call returns  *)
(* after at least one generation, has exactly N elements and no repeated   *)
(* node, whatever the random draws, on graphs with strictly positive       *)
(* off-diagonal costs.                                                     *)
C1_ToursArePermutations ==
    (Configured /\ ValidArgs /\ PositiveOffDiagonal(args.graph)) =>
        /\ \A k \in 1 .. Len(ants) :
              /\ NoRepeat(ants[k].path)
              /\ (pc # "construct" \/ k < cur) /\ ants[k].path # <<>>
                    => IsTour(ants[k].path)
        /\ (ret.returned /\ args.iterations >= 1) => IsTour(ret.path)

(* C2.  From the end of the first generation on, bestCost never grows:    *)
(* no step of a valid configuration takes it to a larger value.            *)
C2_BestCostNonIncreasing ==
    [][(Configured /\ ValidArgs /\ gen >= 1) => Leq(bestCost', bestCost)]_vars

(* C3.  In Max-Min Ant System with tauMin < tauMax every pheromone entry  *)
(* lies in [tauMin, tauMax] after configuration and after every update,    *)
(* so also whenever an ant reads it.                                       *)
C3_PheromonesWithinLimits ==
    (Configured /\ args.variant = "MMAS" /\ Less(args.tauMin, args.tauMax)) =>
        \A i \in Nodes, j \in Nodes :
            /\ Leq(args.tauMin, pheromones[i][j])
            /\ Leq(pheromones[i][j], args.tauMax)

\* An update has clamped entries at both limits.
C3_Witness ==
    /\ args.variant = "MMAS"
    /\ Less(args.tauMin, args.tauMax)
    /\ pc = "loop"
    /\ gen >= 1
    /\ \E i \in Nodes, j \in Nodes : pheromones[i][j] = args.tauMin
    /\ \E i \in Nodes, j \in Nodes : pheromones[i][j] = args.tauMax

\* weights[0] + ... + weights[k]
RECURSIVE PrefixSum(_, _)
PrefixSum(w, k) == IF k = 0 THEN w[0] ELSE Add(PrefixSum(w, k - 1), w[k])

(* C4.  For non-negative weights with sum S > 0 and a draw u in [0, S),   *)
(* simulateChoice returns the smallest index whose prefix sum is strictly  *)
(* greater than u, hence never an index of weight zero.                    *)
C4_SmallestIndexAboveDraw ==
    (pc = "choice" /\ choice.called /\ Less(Zero, choice.sum)) =>
        LET u == Mul(choice.sum, choice.r)
            w == choice.probabilities
        IN  /\ choice.node \in DOMAIN w
            /\ Less(u, PrefixSum(w, choice.node))
            /\ \A k \in DOMAIN w : k < choice.node => ~Less(u, PrefixSum(w, k))
            /\ w[choice.node] # Zero

(* C5.  A call with a configuration error is rejected before anything is  *)
(* computed: no matrix, no ant, no generation, and no tour and cost        *)
(* returned.                                                               *)
C5_InvalidArgsRejected ==
    (pc # "choice" /\ ~ValidArgs) =>
        /\ weights = <<>>
        /\ pheromones = <<>>
        /\ ants = <<>>
        /\ gen = 0
        /\ ~ret.returned

\* The value the pheromone matrix starts from in each variant.
InitialPheromone ==
    IF args.variant = "AS" THEN One
    ELSE IF args.variant = "MMAS" THEN args.tauMax
    ELSE args.tau0

(* C6.  With iterations = 0 no generation runs: no ant visits a node, the *)
(* pheromone matrix keeps its initial values, and the call returns cost 0  *)
(* with a path of N zeros, which is no tour.                               *)
C6_ZeroIterations ==
    (Configured /\ args.iterations = 0) =>
        /\ gen = 0
        /\ \A k \in 1 .. Len(ants) : ants[k].path = <<>> /\ ants[k].cost = Zero
        /\ \A i \in Nodes, j \in Nodes : pheromones[i][j] = InitialPheromone
        /\ ret.returned =>
              /\ ret.cost = Zero
              /\ Len(ret.path) = size
              /\ \A k \in 1 .. size : ret.path[k] = 0
              /\ ~IsTour(ret.path)

C6_Witness ==
    /\ args.iterations = 0
    /\ pc = "done"
    /\ ret.returned
    /\ size >= 2

(* C7.  In Ant Colony System every node-selection step returns a node the *)
(* ant has not visited; with q0 = 1 it is an unvisited node of maximal     *)
(* pheromone^alfa * weight^beta, and with q0 = 0 it is a node the Ant      *)
(* System chooseNode can return.                                           *)
C7_ACSChoosesUnvisited ==
    [][(/\ args.variant = "ACS"
        /\ ValidArgs
        /\ pc = "construct"
        /\ cur <= Len(ants)
        /\ Len(ants[cur].path) >= 1
        /\ Len(ants'[cur].path) = Len(ants[cur].path) + 1)
       =>
        LET a == ants[cur]
            node == ants'[cur].path[Len(ants'[cur].path)]
            p == Probabilities(a)
        IN  /\ ~a.visited[node]
            /\ args.q0 = One =>
                  \A j \in Nodes : ~a.visited[j] => Leq(p[j], p[node])
            /\ args.q0 = Zero =>
                  node \in {chooseNode(a, r) : r \in Float64Draws}]_vars

\* The edges of a complete path, the closing edge included.
Edges(path) ==
    {<<path[k], path[k + 1]>> : k \in 1 .. Len(path) - 1}
        \cup {<<path[Len(path)], path[1]>>}

\* The sum of q / cost over the ants 1 .. k whose tour has the edge i -> j.
RECURSIVE Contribution(_, _, _)
Contribution(i, j, k) ==
    IF k = 0 THEN Zero
    ELSE IF <<i, j>> \in Edges(ants[k].path)
         THEN Add(Contribution(i, j, k - 1), Div(args.q, ants[k].cost))
         ELSE Contribution(i, j, k - 1)

(* C8.  In Ant System one pheromone update over m ants holding complete   *)
(* tours takes every entry p to (1 - rho) * p plus q / cost of every ant   *)
(* whose tour, closing edge included, has that edge.                       *)
C8_AntSystemUpdate ==
    [][(/\ args.variant = "AS"
        /\ pc = "update"
        /\ pc' = "loop"
        /\ \A k \in 1 .. Len(ants) : IsTour(ants[k].path))
       =>
        \A i \in Nodes, j \in Nodes :
            pheromones'[i][j] =
                Add(Mul(Sub(One, args.rho), pheromones[i][j]),
                    Contribution(i, j, Len(ants)))]_vars

\* An update has just run over two ants whose tours differ in their edges.
C8_Witness ==
    /\ args.variant = "AS"
    /\ pc = "loop"
    /\ gen >= 1
    /\ Len(ants) >= 2
    /\ \A k \in 1 .. Len(ants) : IsTour(ants[k].path) /\ Less(Zero, ants[k].cost)
    /\ Edges(ants[1].path) # Edges(ants[2].path)
    /\ \E i \in Nodes, j \in Nodes : pheromones[i][j] = Sub(One, args.rho)

(* C9.  The local update of Ant Colony System, with 0 < phi <= 1, leaves  *)
(* every edge of the ant's path, closing edge included, strictly smaller   *)
(* when tau0 is below its old value, strictly larger when tau0 is above    *)
(* it and unchanged when equal; every other edge is unchanged.             *)
C9_LocalUpdateTowardsTau0 ==
    [][(/\ args.variant = "ACS"
        /\ pc = "construct"
        /\ cur' = cur + 1
        /\ Less(Zero, args.phi) /\ Leq(args.phi, One))
       =>
        \A i \in Nodes, j \in Nodes :
            LET old == pheromones[i][j]
                new == pheromones'[i][j]
            IN  IF <<i, j>> \in Edges(ants[cur].path)
                THEN /\ Less(args.tau0, old) => Less(new, old)
                     /\ Less(old, args.tau0) => Less(old, new)
                     /\ old = args.tau0 => new = old
                ELSE new = old]_vars

AllToursComplete ==
    \A k \in 1 .. Len(ants) : Len(ants[k].path) = size

(* C10.  Generations run in sequence as reset, construction, best-path    *)
(* update, pheromone update.  The generation-end update starts only when   *)
(* every ant holds a complete tour and the best path has been updated from *)
(* them, and ends before any ant is reset; in Ant System and Max-Min the   *)
(* pheromone matrix does not change during construction.                   *)
C10_GenerationsInSequence ==
    [][(Configured /\ pc # "done") =>
        /\ <<pc, pc'>> \in {<<"loop", "construct">>, <<"construct", "construct">>,
                            <<"construct", "update">>, <<"update", "loop">>,
                            <<"loop", "done">>, <<"construct", "panic">>}
        \* the best-path update sees every ant's complete tour
        /\ pc' = "update" =>
              /\ AllToursComplete /\ cur > Len(ants)
              /\ ants' = ants /\ pheromones' = pheromones
              /\ \/ <<bestPath', bestCost'>> = <<bestPath, bestCost>>
                 \/ \E k \in 1 .. Len(ants) :
                       <<bestPath', bestCost'>> = <<ants[k].path, ants[k].cost>>
              /\ (\A k \in 1 .. Len(ants) : Less(Zero, ants[k].cost)) =>
                    \A k \in 1 .. Len(ants) : Leq(bestCost', ants[k].cost)
        \* the generation-end update
        /\ pc = "update" =>
              /\ AllToursComplete
              /\ ants' = ants /\ bestPath' = bestPath /\ bestCost' = bestCost
              /\ gen' = gen + 1
        \* an ant is reset or moves only outside the generation-end update
        /\ ants' # ants => pc \in {"loop", "construct"} /\ gen' = gen
        /\ (pc = "loop" /\ pc' = "construct") =>
              /\ \A k \in 1 .. Len(ants') : ants'[k].path = <<>>
              /\ pheromones' = pheromones
        \* construction reads a matrix that nothing writes
        /\ (pc = "construct" /\ args.variant \in {"AS", "MMAS"}) =>
              pheromones' = pheromones
        /\ pheromones' # pheromones =>
              \/ pc = "update"
              \/ /\ args.variant = "ACS" /\ pc = "construct"
                 /\ Len(ants[cur].path) = size]_vars

\* The only ant of a second generation holds its complete tour, built on
\* the matrix the first generation's update left.
C10_Witness ==
    /\ args.variant \in {"AS", "MMAS"}
    /\ pc = "construct"
    /\ gen >= 1
    /\ cur > Len(ants)
    /\ AllToursComplete
    /\ \E i \in Nodes, j \in Nodes : pheromones[i][j] # InitialPheromone

\* The cost of the closed tour along path, read off the graph: the edges
\* between consecutive entries and the closing edge from the last to the first.
RECURSIVE EdgeSum(_, _)
EdgeSum(path, k) ==
    IF k >= Len(path) THEN Zero
    ELSE Add(args.graph[path[k]][path[k + 1]], EdgeSum(path, k + 1))

PathCost(path) == Add(EdgeSum(path, 1), args.graph[path[Len(path)]][path[1]])

BestDescribesOneTour ==
    /\ (Configured /\ pc # "panic" /\ (gen >= 1 \/ pc = "update"))
          => bestCost = PathCost(bestPath)
    /\ (ret.returned /\ args.iterations >= 1) => ret.cost = PathCost(ret.path)

\* C11: once a generation has run, in every variant, bestCost is the sum of
\* the graph's edge costs along bestPath, closing edge included; the resets
\* and the tour constructions of later generations leave bestPath as
\* updateBestPath recorded it, although it is the ant's own slice, and the
\* path and the cost returned describe the same tour.
C11_BestCostIsCostOfBestPath ==
    /\ []BestDescribesOneTour
    /\ [][pc' = "construct" => bestPath' = bestPath]_vars

\* A later generation has built all its tours, none of them the best path
\* kept from an earlier generation and none of its cost.
C11_Witness ==
    /\ pc = "construct"
    /\ gen >= 1
    /\ cur > Len(ants)
    /\ AllToursComplete
    /\ bestCost = PathCost(bestPath)
    /\ \A k \in 1 .. Len(ants) :
          /\ ants[k].path # bestPath
          /\ ants[k].cost # bestCost
====
